---- MODULE Spec2Model ----
(***************************************************************************)
(* Recording coordinator of StudentWhiteboard.tsx as a state machine.      *)
(*                                                                         *)
(* React state lives in two records: `committed` holds the values of the   *)
(* last render (what every closure created by that render reads) and       *)
(* `pending` holds the values after the queued setState calls. Refs        *)
(* (streamRef, recorderRef, lastUpdateRef) are read and written live.      *)
(* An async function is a task record whose pc names the await it is       *)
(* suspended at and whose field c is the closure it was created with.      *)
(*                                                                         *)
(* StrokeRecorder.recordStrokes is a second state machine over its own     *)
(* variables, with the number arithmetic of createFrame and drawPath       *)
(* carried out in binary64 as the JavaScript engine does.                  *)
(***************************************************************************)
EXTENDS Integers, Sequences, FiniteSets

\* Number of start attempts (getDisplayMedia calls) a behaviour may hold.
MaxStarts == 2
\* Number of stop sequences (stopRecording calls) a behaviour may hold.
MaxStops == 2

StartIds == 1..MaxStarts
StopIds == 1..MaxStops
\* Stream i and recorder i are the ones start attempt i creates; 0 is null.
TeacherIds == {"t1"}
NoTeacher == "null"
EmptyBoard == "[]"
Boards == {EmptyBoard, "w1"}
\* What getBlob resolves to: no blob, a zero-byte blob, a blob with bytes.
Blobs == {"missing", "zero", "bytes"}

VARIABLES committed, pending, hnd, streamRef, recorderRef, lastUpdateRef,
          starts, stops, tracks, recState, stopCalls, uploaded, posts, mounted

\* The coordinator's variables. mounted is TRUE until the component unmounts.
cvars == <<committed, pending, hnd, streamRef, recorderRef, lastUpdateRef,
           starts, stops, tracks, recState, stopCalls, uploaded, posts, mounted>>

\* StrokeRecorder.recordStrokes: its argument, its locals, the files written
\* to the encoder's file system, the frames the encoder read and the position
\* of the call.
VARIABLES paths, frames, progress, frameIx, fs, fed, rpc

rvars == <<paths, frames, progress, frameIx, fs, fed, rpc>>

vars == <<cvars, rvars>>

\* useState initial values, lines 21-26.
InitialState ==
  [live |-> FALSE, tid |-> NoTeacher, rec |-> FALSE, sav |-> FALSE, sta |-> FALSE]

\* The values a closure of a render captures and later reads.
Closure(s) == [tid |-> s.tid, rec |-> s.rec, sav |-> s.sav]

NoStart == [pc |-> "none", c |-> Closure(InitialState), alert |-> "none"]

\* snap is not a value of the program: it remembers, while a save is in flight,
\* what lastUpdateRef held when isSaving was set.
NoStop ==
  [pc |-> "none", trig |-> "none", r |-> 0, b |-> 0,
   c |-> Closure(InitialState), out |-> "none", alert |-> "none",
   snap |-> EmptyBoard]

CoordinatorInit ==
  /\ committed = InitialState
  /\ pending = InitialState
  /\ hnd = Closure(InitialState)
  /\ streamRef = 0
  /\ recorderRef = 0
  /\ lastUpdateRef = EmptyBoard
  /\ starts = [i \in StartIds |-> NoStart]
  /\ stops = [j \in StopIds |-> NoStop]
  /\ tracks = [i \in StartIds |-> "none"]
  /\ recState = [i \in StartIds |-> "none"]
  /\ stopCalls = [i \in StartIds |-> 0]
  /\ uploaded = [i \in StartIds |-> 0]
  /\ posts = <<>>
  /\ mounted = TRUE

\* The part of the state that cleanupRecording and a render read and write.
World ==
  [committed |-> committed, pending |-> pending, hnd |-> hnd,
   streamRef |-> streamRef, recorderRef |-> recorderRef, tracks |-> tracks]

SetWorld(w) ==
  /\ committed' = w.committed
  /\ pending' = w.pending
  /\ hnd' = w.hnd
  /\ streamRef' = w.streamRef
  /\ recorderRef' = w.recorderRef
  /\ tracks' = w.tracks

\* Mutant of cleanupRecording: the starting flag is not reset.
cleanupRecordingKeepsStarting(w) ==
  [w EXCEPT !.tracks = IF w.streamRef # 0
                       THEN [w.tracks EXCEPT ![w.streamRef] = "stopped"]
                       ELSE w.tracks,
            !.streamRef = 0,
            !.recorderRef = 0,
            !.pending = [w.pending EXCEPT !.rec = FALSE, !.sav = FALSE]]

\* cleanupRecording, lines 44-79: stop every track of the current stream, null
\* both refs, queue the three flags to false.
cleanupRecording(w) ==
  [w EXCEPT !.tracks = IF w.streamRef # 0
                       THEN [w.tracks EXCEPT ![w.streamRef] = "stopped"]
                       ELSE w.tracks,
            !.streamRef = 0,
            !.recorderRef = 0,
            !.pending = [w.pending EXCEPT !.rec = FALSE, !.sav = FALSE, !.sta = FALSE]]

\* The socket effect's dependency list, lines 288-295. handleRecordingComplete
\* changes with currentTeacherId, isRecording, isSaving and cleanupRecording;
\* cleanupRecording changes with isRecording, isSaving and isStarting.
EffectDeps(s) == <<s.tid, s.rec, s.sav, s.sta>>

\* One React render and commit: the queued state becomes the rendered state.
\* When a dependency of the socket effect changed, the previous effect's
\* cleanup runs (lines 276-287, ending in cleanupRecording) and the effect
\* registers the socket handlers of the new render (lines 268-272).
ReactRender(w) ==
  IF w.pending = w.committed
  THEN w
  ELSE LET w1 == [w EXCEPT !.committed = w.pending]
       IN IF EffectDeps(w.pending) # EffectDeps(w.committed)
          THEN [cleanupRecording(w1) EXCEPT !.hnd = Closure(w.pending)]
          ELSE w1

Render ==
  /\ mounted
  /\ pending # committed
  /\ SetWorld(ReactRender(World))
  /\ UNCHANGED <<rvars, mounted, lastUpdateRef, starts, stops, recState, stopCalls, uploaded, posts>>

\* The record button: rendered only while the teacher is live (lines 308-322,
\* which also makes the guard of lines 147-150 pass) and disabled while
\* isSaving or isStarting (line 324).
isButtonDisabled(s) == s.sav \/ s.sta

ButtonEnabled == committed.live /\ ~isButtonDisabled(committed)

FreeStarts == {i \in StartIds : starts[i].pc = "none"}
FreeStops == {j \in StopIds : stops[j].pc = "none"}
NewStart == CHOOSE i \in FreeStarts : \A k \in FreeStarts : i <= k
NewStop == CHOOSE j \in FreeStops : \A k \in FreeStops : j <= k

\* `await recorderRef.current.stopRecording()` reached by a handler whose
\* closure is c: the encoder's stop is called and the handler suspends.
BeginStop(trig, c) ==
  /\ FreeStops # {}
  /\ stops' = [stops EXCEPT ![NewStop] =
                 [pc |-> "encStop", trig |-> trig, r |-> recorderRef, b |-> 0,
                  c |-> c, out |-> "none", alert |-> "none",
                  snap |-> EmptyBoard]]
  /\ stopCalls' = [stopCalls EXCEPT ![recorderRef] = @ + 1]

\* toggleRecording, lines 137-217, up to its first await, followed by the
\* render React runs before the click event returns.
Click ==
  /\ mounted
  /\ ButtonEnabled
  /\ IF committed.rec
     THEN IF recorderRef # 0
          THEN \* lines 155-159
               /\ BeginStop("user", Closure(committed))
               /\ UNCHANGED <<committed, pending, hnd, streamRef, recorderRef,
                              tracks, starts>>
          ELSE \* lines 160-163
               /\ SetWorld(ReactRender(cleanupRecording(World)))
               /\ UNCHANGED <<starts, stops, stopCalls>>
     ELSE \* lines 169-179
          /\ FreeStarts # {}
          /\ starts' = [starts EXCEPT ![NewStart] =
                          [pc |-> "acquire", c |-> Closure(committed),
                           alert |-> "none"]]
          /\ SetWorld(ReactRender(
               [World EXCEPT !.pending = [pending EXCEPT !.sta = TRUE]]))
          /\ UNCHANGED <<stops, stopCalls>>
  /\ UNCHANGED <<rvars, mounted, lastUpdateRef, recState, uploaded, posts>>

\* getDisplayMedia resolves, lines 181-192: the stream and a new recorder go
\* into the refs and startRecording is awaited.
Granted(i) ==
  /\ starts[i].pc = "acquire"
  /\ starts' = [starts EXCEPT ![i].pc = "encStart"]
  /\ streamRef' = i
  /\ recorderRef' = i
  /\ tracks' = [tracks EXCEPT ![i] = "live"]
  /\ recState' = [recState EXCEPT ![i] = "created"]
  /\ UNCHANGED <<rvars, mounted, committed, pending, hnd, lastUpdateRef, stops, stopCalls,
                 uploaded, posts>>

\* The alert of the start branch's catch, lines 210-214.
StartAlert(name) == IF name = "NotAllowedError" THEN "allow" ELSE "failed"

\* getDisplayMedia rejects, lines 207-215.
Refused(i, name) ==
  /\ starts[i].pc = "acquire"
  /\ starts' = [starts EXCEPT ![i].pc = "refused", ![i].alert = StartAlert(name)]
  /\ SetWorld(cleanupRecording(World))
  /\ UNCHANGED <<rvars, mounted, lastUpdateRef, stops, recState, stopCalls, uploaded, posts>>

\* startRecording resolves, lines 193-206: the flags are queued and the
\* stream's onended handler is installed.
EncoderStarted(i) ==
  /\ starts[i].pc = "encStart"
  /\ starts' = [starts EXCEPT ![i].pc = "started"]
  /\ recState' = [recState EXCEPT ![i] = IF @ = "created" THEN "recording" ELSE @]
  /\ pending' = [pending EXCEPT !.rec = TRUE, !.sta = FALSE]
  /\ UNCHANGED <<rvars, mounted, committed, hnd, streamRef, recorderRef, tracks, lastUpdateRef,
                 stops, stopCalls, uploaded, posts>>

\* startRecording rejects, lines 207-215.
EncoderStartFailed(i) ==
  /\ starts[i].pc = "encStart"
  /\ starts' = [starts EXCEPT ![i].pc = "encFailed", ![i].alert = StartAlert("Error")]
  /\ SetWorld(cleanupRecording(World))
  /\ UNCHANGED <<rvars, mounted, lastUpdateRef, stops, recState, stopCalls, uploaded, posts>>

\* The stream's video track ends at the device. The onended handler of lines
\* 197-206, when installed, reads isRecording and isSaving of the render in
\* which toggleRecording was called.
DeviceEnded(i) ==
  /\ tracks[i] = "live"
  /\ tracks' = [tracks EXCEPT ![i] = "ended"]
  /\ IF /\ starts[i].pc = "started"
        /\ starts[i].c.rec /\ ~starts[i].c.sav
        /\ recorderRef # 0
     THEN BeginStop("ended", starts[i].c)
     ELSE UNCHANGED <<stops, stopCalls>>
  /\ UNCHANGED <<rvars, mounted, committed, pending, hnd, streamRef, recorderRef, lastUpdateRef,
                 starts, recState, uploaded, posts>>

\* handleTeacherOnline, lines 235-239.
TeacherOnline(t) ==
  /\ mounted
  /\ pending' = [pending EXCEPT !.live = TRUE, !.tid = t]
  /\ UNCHANGED <<rvars, mounted, committed, hnd, streamRef, recorderRef, lastUpdateRef, starts,
                 stops, tracks, recState, stopCalls, uploaded, posts>>

\* Lines 248-249 of handleTeacherOffline, run after its stop sequence.
OfflineTail(trig, p) ==
  IF trig = "offline" THEN [p EXCEPT !.live = FALSE, !.tid = NoTeacher] ELSE p

\* The guard of the socket handlers, lines 242-243 and 260-261.
AutoStopGuard == hnd.rec /\ ~hnd.sav /\ recorderRef # 0

\* handleTeacherOffline, lines 241-253, up to its first await.
TeacherOffline ==
  /\ mounted
  /\ IF AutoStopGuard
     THEN /\ BeginStop("offline", hnd)
          /\ UNCHANGED pending
     ELSE /\ pending' = OfflineTail("offline", pending)
          /\ UNCHANGED <<stops, stopCalls>>
  /\ UNCHANGED <<rvars, mounted, committed, hnd, streamRef, recorderRef, lastUpdateRef, starts,
                 tracks, recState, uploaded, posts>>

\* handleDisconnect, lines 259-266, up to its first await.
Disconnect ==
  /\ mounted
  /\ AutoStopGuard
  /\ BeginStop("disconnect", hnd)
  /\ UNCHANGED <<rvars, mounted, committed, pending, hnd, streamRef, recorderRef, lastUpdateRef,
                 starts, tracks, recState, uploaded, posts>>

\* canvasRef.current is set only while the canvas is rendered, which is while
\* the teacher is live (lines 308-322, 352-353).
canvasMounted == committed.live

\* handleWhiteboardUpdate, lines 29-42: what lastUpdateRef holds after the
\* handler ran with payload d.
handleWhiteboardUpdate(d) == IF canvasMounted THEN d ELSE lastUpdateRef

\* A whiteboardUpdate event arrives.
WhiteboardUpdate(d) ==
  /\ mounted
  /\ lastUpdateRef' = handleWhiteboardUpdate(d)
  /\ UNCHANGED <<rvars, mounted, committed, pending, hnd, streamRef, recorderRef, starts, stops,
                 tracks, recState, stopCalls, uploaded, posts>>

\* The guard of handleRecordingComplete, lines 89-92, for a closure c.
CannotComplete(c) == recorderRef = 0 \/ c.tid = NoTeacher \/ ~c.rec

\* stopRecording resolves and handleRecordingComplete runs up to getBlob,
\* lines 81-98.
StopResolved(j) ==
  /\ stops[j].pc = "encStop"
  /\ recState' = [recState EXCEPT ![stops[j].r] = "stopped"]
  /\ IF CannotComplete(stops[j].c)
     THEN /\ stops' = [stops EXCEPT ![j].pc = "done", ![j].out = "skipped"]
          /\ pending' = OfflineTail(stops[j].trig, pending)
     ELSE /\ stops' = [stops EXCEPT ![j].pc = "blob", ![j].b = recorderRef,
                                    ![j].snap = lastUpdateRef]
          /\ pending' = [pending EXCEPT !.sav = TRUE]
  /\ UNCHANGED <<rvars, mounted, committed, hnd, streamRef, recorderRef, lastUpdateRef, starts,
                 tracks, stopCalls, uploaded, posts>>

\* stopRecording rejects. Only toggleRecording awaits it inside a try
\* (lines 154-167); the other three callers let the rejection escape.
StopRejected(j) ==
  /\ stops[j].pc = "encStop"
  /\ stops' = [stops EXCEPT ![j].pc = "done", ![j].out = "stopFailed"]
  /\ IF stops[j].trig = "user"
     THEN SetWorld(cleanupRecording(World))
     ELSE UNCHANGED <<committed, pending, hnd, streamRef, recorderRef, tracks>>
  /\ UNCHANGED <<rvars, mounted, lastUpdateRef, starts, recState, stopCalls, uploaded, posts>>

\* The catch and finally of handleRecordingComplete, lines 129-134, then what
\* the caller runs after it.
FailSave(j, kind) ==
  /\ stops' = [stops EXCEPT ![j].pc = "done", ![j].out = kind,
                            ![j].alert = "fail", ![j].snap = EmptyBoard]
  /\ LET w == cleanupRecording(World)
     IN SetWorld([w EXCEPT !.pending = OfflineTail(stops[j].trig, w.pending)])

\* Mutant of isEmptyBlob: only a missing blob is rejected.
isEmptyBlobMissingOnly(blob) == blob = "missing"

\* The test of line 99.
isEmptyBlob(blob) == blob = "missing" \/ blob = "zero"

\* getBlob resolves, lines 98-106.
BlobResolved(j, blob) ==
  /\ stops[j].pc = "blob"
  /\ IF isEmptyBlob(blob)
     THEN /\ FailSave(j, "emptyBlob")
          /\ UNCHANGED uploaded
     ELSE /\ stops' = [stops EXCEPT ![j].pc = "upload"]
          /\ uploaded' = [uploaded EXCEPT ![stops[j].b] = @ + 1]
          /\ UNCHANGED <<committed, pending, hnd, streamRef, recorderRef, tracks>>
  /\ UNCHANGED <<rvars, mounted, lastUpdateRef, starts, recState, stopCalls, posts>>

\* uploadSessionRecording resolves, lines 106-121: the snapshot is read and the
\* session is posted.
UploadResolved(j) ==
  /\ stops[j].pc = "upload"
  /\ stops' = [stops EXCEPT ![j].pc = "persist", ![j].snap = EmptyBoard]
  /\ posts' = Append(posts, [teacherId |-> stops[j].c.tid,
                             videoUrl |-> stops[j].b,
                             whiteboardData |-> lastUpdateRef])
  /\ UNCHANGED <<rvars, mounted, committed, pending, hnd, streamRef, recorderRef, lastUpdateRef,
                 starts, tracks, recState, stopCalls, uploaded>>

\* The response is ok, lines 123-134.
PersistResolved(j) ==
  /\ stops[j].pc = "persist"
  /\ stops' = [stops EXCEPT ![j].pc = "done", ![j].out = "saved",
                            ![j].alert = "success"]
  /\ LET w == cleanupRecording(World)
     IN SetWorld([w EXCEPT !.pending = OfflineTail(stops[j].trig, w.pending)])
  /\ UNCHANGED <<rvars, mounted, lastUpdateRef, starts, recState, stopCalls, uploaded, posts>>

\* getBlob or the upload rejects, the fetch rejects or its response is not ok.
SaveStepFailed(j) ==
  /\ stops[j].pc \in {"blob", "upload", "persist"}
  /\ FailSave(j, CASE stops[j].pc = "blob" -> "blobFailed"
                   [] stops[j].pc = "upload" -> "uploadFailed"
                   [] OTHER -> "persistFailed")
  /\ UNCHANGED <<rvars, mounted, lastUpdateRef, starts, recState, stopCalls, uploaded, posts>>

\* The component unmounts: the socket effect's cleanup runs, lines 276-287.
\* Calls already awaiting keep running afterwards.
Dispose ==
  /\ mounted
  /\ mounted' = FALSE
  /\ SetWorld(cleanupRecording(World))
  /\ UNCHANGED <<rvars, lastUpdateRef, starts, stops, recState, stopCalls,
                 uploaded, posts>>

-----------------------------------------------------------------------------
\* Largest number of strokes and of points of a stroke in the stroke lists
\* tried, and the length of the one long list of single-point strokes.
MaxStrokes == 2
MaxPoints == 3
ManyStrokes == 50

\* A stroke is modelled by its number of points, a stroke list by the
\* sequence of those numbers.
StrokeLists ==
  UNION {[1..n -> 0..MaxPoints] : n \in 0..MaxStrokes}
    \cup {[k \in 1..ManyStrokes |-> 1]}

\* JavaScript numbers are IEEE 754 binary64: 53 significant bits, results
\* rounded to nearest, ties to even.
Precision == 53

\* A finite number: sign, significant bits from the leading 1 down to the last
\* 1 (empty for zero), and the exponent e of the leading bit. Its magnitude is
\* the sum of m[j] * 2^(e - j + 1).
Zero == [neg |-> FALSE, m |-> <<>>, e |-> 0]
One == [neg |-> FALSE, m |-> <<1>>, e |-> 0]

\* The positions of the first and of the last 1 of m, 0 when m has none.
FirstOne(m) ==
  IF \A j \in 1..Len(m) : m[j] = 0 THEN 0
  ELSE CHOOSE j \in 1..Len(m) : m[j] = 1 /\ \A t \in 1..(j - 1) : m[t] = 0
LastOne(m) ==
  IF \A j \in 1..Len(m) : m[j] = 0 THEN 0
  ELSE CHOOSE j \in 1..Len(m) : m[j] = 1 /\ \A t \in (j + 1)..Len(m) : m[t] = 0

\* Bit j of m, 0 outside m.
BitAt(m, j) == IF j >= 1 /\ j <= Len(m) THEN m[j] ELSE 0

\* m without its trailing zeros.
Strip(m) == SubSeq(m, 1, LastOne(m))

\* m + 1 in the last place; one bit longer when m is all ones.
Inc(m) ==
  LET z == LastOne([j \in 1..Len(m) |-> 1 - m[j]])
  IN IF z = 0 THEN <<1>> \o [j \in 1..Len(m) |-> 0]
     ELSE [j \in 1..Len(m) |-> IF j < z THEN m[j] ELSE IF j = z THEN 1 ELSE 0]

\* The w low bits of n, and n in binary without leading zeros.
Bits(n, w) == [j \in 1..w |-> (n \div 2^(w - j)) % 2]
Width(n) == CHOOSE w \in 0..30 : n < 2^w /\ (w = 0 \/ n >= 2^(w - 1))
BinOf(n) == Bits(n, Width(n))

\* Integer arithmetic here is done on limbs of LimbBits bits, so that no
\* intermediate value passes 2^31.
LimbBits == 18

\* The value of the 6 bits of m after position s, and of the limb after s.
Val6(m, s) ==
  32 * BitAt(m, s + 1) + 16 * BitAt(m, s + 2) + 8 * BitAt(m, s + 3)
    + 4 * BitAt(m, s + 4) + 2 * BitAt(m, s + 5) + BitAt(m, s + 6)
Limb(m, s) == 4096 * Val6(m, s) + 64 * Val6(m, s + 6) + Val6(m, s + 12)

\* Round the exact magnitude with bits m (leading 1 of weight 2^e; sticky says
\* a nonzero remainder lies below the last bit of m) to Precision bits.
Round(neg, m, e, sticky) ==
  IF Len(m) <= Precision THEN [neg |-> neg, m |-> Strip(m), e |-> e]
  ELSE LET keep == SubSeq(m, 1, Precision)
           guard == m[Precision + 1]
           rest == sticky \/ \E j \in (Precision + 2)..Len(m) : m[j] = 1
           up == guard = 1 /\ (rest \/ keep[Precision] = 1)
           r == IF up THEN Inc(keep) ELSE keep
       IN [neg |-> neg, m |-> Strip(r),
           e |-> IF Len(r) > Precision THEN e + 1 ELSE e]

\* The exponent e of a / b and numerator and denominator scaled so that
\* den <= num < 2 * den.
RECURSIVE Normalise(_, _, _)
Normalise(num, den, e) ==
  IF num < den THEN Normalise(2 * num, den, e - 1)
  ELSE IF num >= 2 * den THEN Normalise(num, 2 * den, e + 1)
  ELSE [num |-> num, den |-> den, e |-> e]

\* a / b for integers a >= 0, b > 0: Precision + 1 quotient bits by long
\* division, three limbs after the leading 1, then rounding.
DivD(a, b) ==
  IF a = 0 THEN Zero
  ELSE LET s == Normalise(a, b, 0)
           r0 == s.num - s.den
           c1 == (r0 * 2^LimbBits) \div s.den
           r1 == (r0 * 2^LimbBits) % s.den
           c2 == (r1 * 2^LimbBits) \div s.den
           r2 == (r1 * 2^LimbBits) % s.den
           w3 == Precision - 2 * LimbBits
           c3 == (r2 * 2^w3) \div s.den
           r3 == (r2 * 2^w3) % s.den
       IN Round(FALSE,
                <<1>> \o Bits(c1, LimbBits) \o Bits(c2, LimbBits) \o Bits(c3, w3),
                s.e, r3 # 0)

\* d * n for an integer n >= 0, limb by limb from the low end.
MulD(d, n) ==
  IF d.m = <<>> \/ n = 0 THEN Zero
  ELSE LET t3 == Limb(d.m, 2 * LimbBits) * n
           t2 == Limb(d.m, LimbBits) * n + t3 \div 2^LimbBits
           t1 == Limb(d.m, 0) * n + t2 \div 2^LimbBits
       IN Round(d.neg,
                BinOf(t1) \o Bits(t2 % 2^LimbBits, LimbBits)
                          \o Bits(t3 % 2^LimbBits, LimbBits),
                d.e + Width(t1) - LimbBits, FALSE)

\* The integer part of the magnitude of d (below 4096), and the bits after
\* the point.
IntPart(d) ==
  IF d.m = <<>> \/ d.e < 0 THEN 0
  ELSE 64 * Val6(d.m, d.e + 1 - 12) + Val6(d.m, d.e + 1 - 6)

FracBits(d) ==
  IF d.m = <<>> THEN <<>>
  ELSE IF d.e < 0 THEN [j \in 1..(-d.e - 1) |-> 0] \o d.m
  ELSE SubSeq(d.m, d.e + 2, Len(d.m))

\* The number with integer part ip and fraction bits f.
FromParts(neg, ip, f) ==
  IF ip > 0 THEN Round(neg, BinOf(ip) \o f, Width(ip) - 1, FALSE)
  ELSE IF FirstOne(f) = 0 THEN Zero
  ELSE Round(neg, SubSeq(f, FirstOne(f), Len(f)), -FirstOne(f), FALSE)

\* 1 - 0.f for fraction bits f ending in 1.
Complement(f) == [j \in 1..Len(f) |-> IF j = Len(f) THEN 1 ELSE 1 - f[j]]

\* d - k for d >= 0 and an integer k >= 0.
SubD(d, k) ==
  LET ip == IntPart(d)
      f == Strip(FracBits(d))
  IN IF ip >= k THEN FromParts(FALSE, ip - k, f)
     ELSE IF f = <<>> THEN FromParts(TRUE, k - ip, <<>>)
     ELSE FromParts(TRUE, k - ip - 1, Complement(f))

\* a < b for a, b >= 0.
LessD(a, b) ==
  IF b.m = <<>> THEN FALSE
  ELSE IF a.m = <<>> THEN TRUE
  ELSE IF a.e # b.e THEN a.e < b.e
  ELSE \E j \in 1..Len(b.m) :
         /\ BitAt(a.m, j) < b.m[j]
         /\ \A t \in 1..(j - 1) : BitAt(a.m, t) = b.m[t]

\* Math.floor.
FloorD(d) ==
  IF ~d.neg THEN IntPart(d)
  ELSE IF Strip(FracBits(d)) = <<>> THEN -IntPart(d)
  ELSE -IntPart(d) - 1

frameRate == 30
\* line 81
totalFrames == frameRate * 5

\* createFrame, lines 67-69: the progress handed to drawPath for the stroke at
\* index (from 0) of n strokes.
pathProgress(prog, index, n) ==
  IF LessD(DivD(index + 1, n), prog) THEN One
  ELSE IF LessD(prog, DivD(index, n)) THEN Zero
  ELSE SubD(MulD(prog, n), index)

\* drawPath, line 48.
pointCount(len, prog) == FloorD(MulD(prog, len))

\* drawPath, lines 39-60, for a stroke of len points: the bound of its loop
\* over the points (0 when it returns at line 40). The loop visits points
\* 0..bound-1 and throws a TypeError when it reads a point past the stroke.
drawPath(len, prog) == IF len = 0 THEN 0 ELSE pointCount(len, prog)

\* createFrame, lines 62-76: the loop bound drawPath uses for each stroke.
createFrame(ps, prog) ==
  [k \in 1..Len(ps) |-> drawPath(ps[k], pathProgress(prog, k - 1, Len(ps)))]

\* The frame a call of createFrame returns, as the number of points drawn of
\* each stroke on the white background.
Raster(bound) == [k \in 1..Len(bound) |-> IF bound[k] > 0 THEN bound[k] ELSE 0]

\* Mutant of FrameLoopContinues: the loop stops one index early.
FrameLoopStopsEarly(i) == i < totalFrames

\* recordStrokes, line 85: the condition of the frame loop.
FrameLoopContinues(i) == i <= totalFrames

\* Mutant of WriteLoopContinues: the last frame is not written.
WriteLoopDropsLast(i, n) == i < n - 1

\* recordStrokes, line 92: the condition of the write loop.
WriteLoopContinues(i, n) == i < n

\* What ffmpeg reads for the input pattern frame%d.png (line 99): the files
\* frame0.png, frame1.png, ... up to the first number that is missing.
FileNames(f) == {f[n].name : n \in 1..Len(f)}
FileData(f, name) ==
  f[CHOOSE n \in 1..Len(f) :
      f[n].name = name /\ \A t \in (n + 1)..Len(f) : f[t].name # name].data
EncoderInput(f) ==
  LET names == FileNames(f)
      count == CHOOSE c \in 0..Len(f) :
                 c \notin names /\ \A j \in 0..(c - 1) : j \in names
  IN [n \in 1..count |-> FileData(f, n - 1)]

\* No call of recordStrokes is running.
RecorderIdle ==
  /\ paths = <<>> /\ frames = <<>> /\ progress = Zero /\ frameIx = 0
  /\ fs = <<>> /\ fed = <<>> /\ rpc = "idle"

\* recordStrokes(paths) has been called and ffmpeg is loaded, lines 78-82.
RecorderInit ==
  /\ CoordinatorInit
  /\ paths \in StrokeLists
  /\ frames = <<>> /\ progress = Zero /\ frameIx = 0
  /\ fs = <<>> /\ fed = <<>> /\ rpc = "render"

\* One iteration of the frame loop, lines 85-89.
RenderFrame ==
  /\ rpc = "render"
  /\ FrameLoopContinues(frameIx)
  /\ progress' = DivD(frameIx, totalFrames)
  /\ LET bound == createFrame(paths, progress')
     IN IF \E k \in 1..Len(paths) : bound[k] > paths[k]
        THEN /\ rpc' = "TypeError"
             /\ UNCHANGED <<frames, frameIx>>
        ELSE /\ frames' = Append(frames, Raster(bound))
             /\ frameIx' = frameIx + 1
             /\ rpc' = rpc
  /\ UNCHANGED <<cvars, paths, fs, fed>>

\* The frame loop ends, line 85.
FramesRendered ==
  /\ rpc = "render"
  /\ ~FrameLoopContinues(frameIx)
  /\ rpc' = "write"
  /\ frameIx' = 0
  /\ UNCHANGED <<cvars, paths, frames, progress, fs, fed>>

\* One iteration of the write loop, lines 92-94.
WriteFrame ==
  /\ rpc = "write"
  /\ WriteLoopContinues(frameIx, Len(frames))
  /\ fs' = Append(fs, [name |-> frameIx, data |-> frames[frameIx + 1]])
  /\ frameIx' = frameIx + 1
  /\ UNCHANGED <<cvars, paths, frames, progress, fed, rpc>>

\* The write loop ends and ffmpeg.run is called, lines 92-103.
FramesWritten ==
  /\ rpc = "write"
  /\ ~WriteLoopContinues(frameIx, Len(frames))
  /\ rpc' = "encode"
  /\ UNCHANGED <<cvars, paths, frames, progress, frameIx, fs, fed>>

\* ffmpeg.run resolves; the output is read, the files are unlinked and the
\* blob is returned, lines 97-114.
Encoded ==
  /\ rpc = "encode"
  /\ fed' = EncoderInput(fs)
  /\ fs' = <<>>
  /\ rpc' = "done"
  /\ UNCHANGED <<cvars, paths, frames, progress, frameIx>>

Init == CoordinatorInit /\ RecorderIdle

Next ==
  \/ Render
  \/ Dispose
  \/ Click
  \/ \E i \in StartIds : Granted(i)
  \/ \E i \in StartIds, name \in {"NotAllowedError", "NotFoundError"} : Refused(i, name)
  \/ \E i \in StartIds : EncoderStarted(i)
  \/ \E i \in StartIds : EncoderStartFailed(i)
  \/ \E i \in StartIds : DeviceEnded(i)
  \/ \E t \in TeacherIds : TeacherOnline(t)
  \/ TeacherOffline
  \/ Disconnect
  \/ \E d \in Boards : WhiteboardUpdate(d)
  \/ \E j \in StopIds : StopResolved(j)
  \/ \E j \in StopIds : StopRejected(j)
  \/ \E j \in StopIds, blob \in Blobs : BlobResolved(j, blob)
  \/ \E j \in StopIds : UploadResolved(j)
  \/ \E j \in StopIds : PersistResolved(j)
  \/ \E j \in StopIds : SaveStepFailed(j)

Spec == Init /\ [][Next]_vars

RecorderNext ==
  \/ RenderFrame
  \/ FramesRendered
  \/ WriteFrame
  \/ FramesWritten
  \/ Encoded

RecorderSpec == RecorderInit /\ [][RecorderNext]_vars
----------------------------------------------------------------------------
\* The coordinator's state as the page labels it, lines 332-335.
StateOf(s) ==
  IF s.sav THEN "saving"
  ELSE IF s.sta THEN "starting"
  ELSE IF s.rec THEN "recording"
  ELSE "idle"

StartInFlight(i) == starts[i].pc \in {"acquire", "encStart"}
StopInFlight(j) == stops[j].pc \in {"encStop", "blob", "upload", "persist"}
SessionOpen(i) == StartInFlight(i) \/ tracks[i] = "live"

\* After the step both refs are null, the stream the coordinator held has its
\* tracks stopped and the three flags are queued to false.
ReleasedToIdle ==
  /\ streamRef' = 0
  /\ recorderRef' = 0
  /\ streamRef # 0 => tracks'[streamRef] = "stopped"
  /\ ~pending'.rec /\ ~pending'.sav /\ ~pending'.sta

\* C1: at most one capture session is open (acquiring, starting its encoder
\* or holding a live stream) at any instant.
C1_AtMostOneSession == Cardinality({i \in StartIds : SessionOpen(i)}) <= 1

\* C2: a toggle while a start, an encoder stop or a save is in flight
\* acquires nothing, stops nothing and changes no flag.
C2_ToggleWhileBusyIsNoOp ==
  [][(Click /\ ((\E i \in StartIds : StartInFlight(i))
                \/ (\E j \in StopIds : StopInFlight(j))))
       => UNCHANGED <<committed, pending, streamRef, recorderRef, tracks,
                      starts, stops, stopCalls>>]_vars

\* C3: when the stop sequence that teacherOffline started while recording
\* completes, by success or by failure of any step, the coordinator is
\* released to idle.
C3_OfflineStopEndsIdle ==
  [][\A j \in StopIds :
       (stops[j].trig = "offline" /\ StopInFlight(j) /\ stops'[j].pc = "done")
         => ReleasedToIdle]_vars

\* Session i is recording: the flags say so, nothing is queued, both refs hold
\* session i's live stream and recorder, and no stop is in flight.
RecordingQuietly(i) ==
  /\ mounted
  /\ committed.rec /\ ~committed.sav /\ pending = committed
  /\ streamRef = i /\ recorderRef = i
  /\ starts[i].pc = "started" /\ tracks[i] = "live"
  /\ \A j \in StopIds : ~StopInFlight(j)

\* C4: the device ending the stream of a recording session with no stop in
\* progress makes the coordinator stop the encoder.
C4_DeviceEndStartsStop ==
  [][\A i \in StartIds :
       (RecordingQuietly(i) /\ FreeStops # {} /\ DeviceEnded(i))
         => stopCalls'[i] = stopCalls[i] + 1]_vars

\* C5: for each session the encoder's stop is called at most once, and at most
\* one upload and one persistence request are issued.
C5_StopSequenceAtMostOnce ==
  \A i \in StartIds :
    /\ stopCalls[i] <= 1
    /\ uploaded[i] <= 1
    /\ Cardinality({k \in 1..Len(posts) : posts[k].videoUrl = i}) <= 1

\* C6: with the presenter active and unchanged, one toggle followed by the
\* device grant and the encoder start leaves the session recording with its
\* stream live, for as long as no stop has been asked for.
C6_StartLeavesRecording ==
  \A i \in StartIds :
    ( /\ mounted
      /\ starts[i].pc = "started"
      /\ \A k \in StartIds \ {i} : starts[k].pc = "none"
      /\ \A j \in StopIds : stops[j].pc = "none"
      /\ tracks[i] # "ended"
      /\ committed.live /\ committed.tid = starts[i].c.tid
      /\ pending = committed )
    => (committed.rec /\ streamRef = i /\ recorderRef = i /\ tracks[i] = "live")

\* C7: a refused capture device returns the coordinator to idle with no
\* encoder created for the attempt, no stream kept and the user told.
C7_RefusalReturnsToIdle ==
  [][\A i \in StartIds :
       Refused(i, "NotAllowedError")
         => /\ ReleasedToIdle
            /\ recState'[i] = "none" /\ tracks'[i] = "none"
            /\ starts'[i].alert = "allow"]_vars

C7_Witness ==
  \E i \in StartIds :
    /\ starts[i].pc = "refused" /\ starts[i].alert = "allow"
    /\ pending = committed /\ ButtonEnabled /\ ~committed.rec
    /\ FreeStarts # {}

StartFailures == {"refused", "encFailed"}
StopFailures ==
  {"stopFailed", "emptyBlob", "blobFailed", "uploadFailed", "persistFailed"}

\* C8: every failing step tells the user and releases the coordinator to idle.
C8_EveryFailureReportedAndReleased ==
  [][/\ \A i \in StartIds :
          (StartInFlight(i) /\ starts'[i].pc \in StartFailures)
            => (starts'[i].alert # "none" /\ ReleasedToIdle)
     /\ \A j \in StopIds :
          (StopInFlight(j) /\ stops'[j].out \in StopFailures)
            => (stops'[j].alert = "fail" /\ ReleasedToIdle)]_vars

\* C9: a missing or zero-byte blob ends the stop sequence as a failure: no
\* upload, no persistence request, the user told, nothing retried, the
\* coordinator released to idle.
C9_EmptyBlobFailsSession ==
  [][\A j \in StopIds, blob \in {"missing", "zero"} :
       BlobResolved(j, blob)
         => /\ uploaded' = uploaded /\ posts' = posts
            /\ stopCalls' = stopCalls
            /\ stops'[j].pc = "done" /\ stops'[j].alert = "fail"
            /\ ReleasedToIdle]_vars

C9_Witness ==
  \E j \in StopIds :
    /\ stops[j].out = "emptyBlob"
    /\ tracks[stops[j].b] = "stopped"
    /\ uploaded[stops[j].b] = 0
    /\ StateOf(committed) = "idle" /\ pending = committed

\* C10: both refs are null while the state is idle and both are non-null
\* while it is recording. (The claim also wants them null while starting; the
\* start branch stores both before it awaits the encoder, lines 182-192, so
\* that part is left out of what is held against the code here.)
C10_RefsFollowState ==
  /\ StateOf(committed) = "idle" => (streamRef = 0 /\ recorderRef = 0)
  /\ StateOf(committed) = "recording" => (streamRef # 0 /\ recorderRef # 0)

\* C11: once the component is disposed, no stream and no recorder is held and
\* no track is live, however the calls still in flight complete.
C11_DisposedStaysReleased ==
  ~mounted => /\ streamRef = 0 /\ recorderRef = 0
              /\ \A i \in StartIds : tracks[i] # "live"

\* C12: the whiteboardData posted for a session is the value lastUpdateRef
\* held when that session's save began; updates arriving during the save do
\* not change it.
C12_SnapshotFixedAtSaving ==
  [][\A j \in StopIds :
       (stops[j].pc = "upload" /\ stops'[j].pc = "persist")
         => posts'[Len(posts')].whiteboardData = stops[j].snap]_vars

\* C13: a whiteboardUpdate overwrites lastUpdateRef with its payload whether
\* or not a teacher is shown live; here for a student who has joined a
\* teacher's room.
C13_EveryUpdateOverwrites ==
  (mounted /\ pending.tid # NoTeacher)
    => \A d \in Boards : handleWhiteboardUpdate(d) = d

\* C14: teacherOnline resets lastUpdateRef to the empty board.
C14_OnlineResetsSnapshot ==
  [][\A t \in TeacherIds : TeacherOnline(t) => lastUpdateRef' = EmptyBoard]_vars

\* C15: when the stop sequence that a transport disconnect started while
\* recording completes, the coordinator is released to idle.
C15_DisconnectStopEndsIdle ==
  [][\A j \in StopIds :
       (stops[j].trig = "disconnect" /\ StopInFlight(j) /\ stops'[j].pc = "done")
         => ReleasedToIdle]_vars

\* Session i has reached recording: its encoder has started, both refs hold
\* it, its stream is live and no stop has been asked for.
ReachedRecording(i) ==
  /\ starts[i].pc = "started" /\ tracks[i] = "live"
  /\ streamRef = i /\ recorderRef = i
  /\ \A j \in StopIds : ~StopInFlight(j)

\* C19: a session that has reached recording loses its tracks or its refs
\* only in a step that is a user toggle, teacherOffline, a disconnect, the
\* device ending the stream, or the unmount.
C19_RecordingEndsOnlyOnRequest ==
  [][\A i \in StartIds :
       (ReachedRecording(i)
          /\ (tracks'[i] # "live" \/ streamRef' # i \/ recorderRef' # i))
         => (Click \/ TeacherOffline \/ Disconnect \/ DeviceEnded(i) \/ Dispose)]_vars

\* All strokes of the list have the same number of points.
EqualLengths(ps) == \A j \in 1..Len(ps) : ps[j] = ps[1]

\* C16: with strokes of equal length, in the frame whose index is k/N of
\* totalFrames for some k in 1..N-1 the first k strokes are drawn whole and
\* the others not at all.
C16_RevealLaw ==
  \A n \in 1..Len(frames) :
    EqualLengths(paths) =>
      \A k \in 1..(Len(paths) - 1) :
        k * totalFrames = (n - 1) * Len(paths) =>
          /\ \A j \in 1..k : frames[n][j] = paths[j]
          /\ \A j \in (k + 1)..Len(paths) : frames[n][j] = 0

\* C17: frames are rendered for the indices 0, 1, ..., totalFrames, each at
\* progress index / totalFrames, and written under their index in that
\* order; the encoder reads exactly these totalFrames + 1 frames.
C17_OneFramePerIndexInOrder ==
  /\ Len(frames) > 0 => progress = DivD(Len(frames) - 1, totalFrames)
  /\ \A n \in 1..Len(fs) : fs[n].name = n - 1 /\ fs[n].data = frames[n]
  /\ rpc \in {"write", "encode", "done"} => Len(frames) = totalFrames + 1
  /\ rpc = "encode" => Len(fs) = totalFrames + 1
  /\ rpc = "done" => fed = frames

C17_Witness ==
  /\ rpc = "done" /\ paths # <<>>
  /\ Len(fed) = totalFrames + 1
  /\ fed[1] # fed[totalFrames + 1]

\* No point of any stroke is drawn on the white background.
Blank(frame) == \A k \in 1..Len(frame) : frame[k] = 0

\* C18: for the empty stroke list the call throws nothing, every frame is
\* blank and the encoder reads all totalFrames + 1 of them.
C18_EmptyListStillEncodes ==
  paths = <<>> =>
    /\ rpc # "TypeError"
    /\ \A n \in 1..Len(frames) : Blank(frames[n])
    /\ rpc = "done" =>
         (Len(fed) = totalFrames + 1 /\ \A n \in 1..Len(fed) : Blank(fed[n]))

C18_Witness == paths = <<>> /\ rpc = "done" /\ Len(fed) = totalFrames + 1

\* floor(len * clamp(progress * n - index, 0, 1)) for progress = i / totalFrames
\* in exact arithmetic.
ExactPoints(len, i, index, n) ==
  IF i * n <= index * totalFrames THEN 0
  ELSE IF i * n >= (index + 1) * totalFrames THEN len
  ELSE (len * (i * n - index * totalFrames)) \div totalFrames

\* C20: the number of points of each stroke drawn in each frame is
\* floor(len * clamp(progress * N - k, 0, 1)).
C20_ProportionalPrefix ==
  \A n \in 1..Len(frames) : \A k \in 1..Len(paths) :
    frames[n][k] = ExactPoints(paths[k], n - 1, k - 1, Len(paths))
====
